---- MODULE Spec2Model ----
(***************************************************************************)
(* Model of src/main.py: the /api/ask request handler of the AI Tutor      *)
(* backend (validation, prompt composition, attachment processing, the     *)
(* SSE stream relay and the cleanup of remotely uploaded files).           *)
(*                                                                         *)
(* Strings supplied by the caller are sequences of one-character strings;  *)
(* literals written by the handler are single multi-character tokens, so   *)
(* prompt_text is the flat concatenation the code builds with f-strings    *)
(* and +=.                                                                 *)
(***************************************************************************)
EXTENDS Naturals, Integers, Sequences, FiniteSets, TLC

(***************************************************************************)
(* Bounds of the model.                                                    *)
(***************************************************************************)
MaxFiles == 2
MaxChunks == 2

(***************************************************************************)
(* Python values.                                                          *)
(***************************************************************************)
\* payload.get(k) is either missing (None) or a value
None == [some |-> FALSE, v |-> <<>>]
Some(x) == [some |-> TRUE, v |-> x]

\* `x or d` for an optional string/list: None and the empty value are falsy
OrDefault(x, d) == IF x.some /\ x.v # <<>> THEN x.v ELSE d

\* dict.get(k, d): the default only replaces a missing key
GetDefault(x, d) == IF x.some THEN x.v ELSE d

Whitespace == {" ", "\n", "\t"}

RECURSIVE LStrip(_)
LStrip(s) == IF s # <<>> /\ Head(s) \in Whitespace THEN LStrip(Tail(s)) ELSE s

RECURSIVE RStrip(_)
RStrip(s) == IF s # <<>> /\ s[Len(s)] \in Whitespace
             THEN RStrip(SubSeq(s, 1, Len(s) - 1)) ELSE s

\* str.strip()
Strip(s) == RStrip(LStrip(s))

LowerAlphabet == <<"a","b","c","d","e","f","g","h","i","j","k","l","m",
                   "n","o","p","q","r","s","t","u","v","w","x","y","z">>
UpperAlphabet == <<"A","B","C","D","E","F","G","H","I","J","K","L","M",
                   "N","O","P","Q","R","S","T","U","V","W","X","Y","Z">>

UpperChar(c) == IF \E i \in 1..26 : LowerAlphabet[i] = c
                THEN UpperAlphabet[CHOOSE i \in 1..26 : LowerAlphabet[i] = c]
                ELSE c

LowerChar(c) == IF \E i \in 1..26 : UpperAlphabet[i] = c
                THEN LowerAlphabet[CHOOSE i \in 1..26 : UpperAlphabet[i] = c]
                ELSE c

\* str.upper() / str.lower()
Upper(s) == [i \in 1..Len(s) |-> UpperChar(s[i])]
Lower(s) == [i \in 1..Len(s) |-> LowerChar(s[i])]

(***************************************************************************)
(* Configuration (src/main.py, CONFIG).                                    *)
(***************************************************************************)
ALLOWED_BOARDS == { <<"I","C","S","E">>, <<"C","B","S","E">>, <<"S","S","L","C">> }

SUPPORTED_MIME_TYPES == {"image/jpeg", "image/png", "image/gif", "image/webp",
                         "application/pdf", "text/plain"}

max_attempts == 30

(***************************************************************************)
(* base64.b64decode(b64) (validate=False): characters outside the alphabet *)
(* are discarded, a complete pad sequence ends the input, and leftover     *)
(* sextets that do not fill a byte raise binascii.Error.                   *)
(***************************************************************************)
B64Alphabet == <<"A","B","C","D","E","F","G","H","I","J","K","L","M",
                 "N","O","P","Q","R","S","T","U","V","W","X","Y","Z",
                 "a","b","c","d","e","f","g","h","i","j","k","l","m",
                 "n","o","p","q","r","s","t","u","v","w","x","y","z",
                 "0","1","2","3","4","5","6","7","8","9","+","/">>

IsB64Char(c) == \E i \in 1..64 : B64Alphabet[i] = c

B64Value(c) == (CHOOSE i \in 1..64 : B64Alphabet[i] = c) - 1

\* state of the decoder: quad_pos, leftchar, pads, the bytes emitted so far
RECURSIVE B64Scan(_, _, _, _, _)
B64Scan(s, quad_pos, leftchar, pads, out) ==
    IF s = <<>>
    THEN [ok |-> quad_pos = 0, bytes |-> out]
    ELSE LET c == Head(s) IN
         IF c = "="
         THEN IF quad_pos >= 2 /\ quad_pos + pads + 1 >= 4
              THEN [ok |-> TRUE, bytes |-> out]
              ELSE B64Scan(Tail(s), quad_pos, leftchar,
                           IF quad_pos >= 2 THEN pads + 1 ELSE pads, out)
         ELSE IF ~IsB64Char(c)
         THEN B64Scan(Tail(s), quad_pos, leftchar, pads, out)
         ELSE LET v == B64Value(c) IN
              CASE quad_pos = 0 -> B64Scan(Tail(s), 1, v, 0, out)
                [] quad_pos = 1 -> B64Scan(Tail(s), 2, v % 16, 0,
                                           Append(out, leftchar * 4 + v \div 16))
                [] quad_pos = 2 -> B64Scan(Tail(s), 3, v % 4, 0,
                                           Append(out, leftchar * 16 + v \div 4))
                [] quad_pos = 3 -> B64Scan(Tail(s), 0, 0, 0,
                                           Append(out, leftchar * 64 + v))

\* [ok |-> FALSE] stands for the raised binascii.Error
b64decode(s) == B64Scan(s, 0, 0, 0, <<>>)

(***************************************************************************)
(* bytes.decode("utf-8", errors="replace"), for one- and two-byte forms:   *)
(* a byte that cannot start or continue a character becomes U+FFFD and     *)
(* decoding resumes at the next byte.  Payload bytes of the model stay     *)
(* outside 0xE0..0xF4 (the three- and four-byte lead bytes).               *)
(***************************************************************************)
Chr(cp) == CASE cp = 10 -> "\n"
             [] cp = 32 -> " "
             [] cp \in 65..90 -> UpperAlphabet[cp - 64]
             [] cp \in 97..122 -> LowerAlphabet[cp - 96]
             [] cp = 65533 -> "U+FFFD"
             [] OTHER -> ToString(cp)

RECURSIVE DecodeUtf8Replace(_)
DecodeUtf8Replace(bs) ==
    IF bs = <<>> THEN <<>>
    ELSE LET b == Head(bs) IN
         IF b < 128
         THEN <<Chr(b)>> \o DecodeUtf8Replace(Tail(bs))
         ELSE IF b \in 194..223 /\ Len(bs) >= 2 /\ bs[2] \in 128..191
         THEN <<Chr((b - 192) * 64 + (bs[2] - 128))>>
              \o DecodeUtf8Replace(Tail(Tail(bs)))
         ELSE <<Chr(65533)>> \o DecodeUtf8Replace(Tail(bs))

(***************************************************************************)
(* Requests.  A payload is the JSON object posted to /api/ask; a missing   *)
(* key is None.  A file is {name, mimeType, base64}: name may be missing,  *)
(* a missing mimeType or base64 reads as "" (f.get(k, "")).                *)
(***************************************************************************)
Reqs == {1, 2}

Str(t) == <<t>>

PdfName == "n.pdf"
TxtName == "t.txt"

\* base64 of b"AB"
B64_AB == <<"Q","U","I","=">>
\* base64 of b"A\xff\xc3\xa9" with a line break inside
B64_Mixed == <<"Q","f","/","D","\n","q","Q","=","=">>
\* one sextet short of a byte: b64decode raises
B64_Bad == <<"Q","U","I">>

PdfFile == [name |-> Some(PdfName), mimeType |-> "application/pdf", base64 |-> B64_AB]
NoPayloadFile == [name |-> Some("e.png"), mimeType |-> "image/png", base64 |-> <<>>]
NoMimeFile == [name |-> Some("m.bin"), mimeType |-> "", base64 |-> B64_AB]
UnsupportedFile == [name |-> None, mimeType |-> "video/mp4", base64 |-> B64_AB]
BadBase64File == [name |-> Some("b.txt"), mimeType |-> "text/plain", base64 |-> B64_Bad]

\* the attachments every file list is built from
Attachments ==
    { PdfFile,
      [name |-> Some(TxtName), mimeType |-> "text/plain", base64 |-> B64_Mixed],
      [name |-> Some("i.png"), mimeType |-> "image/png", base64 |-> B64_AB],
      UnsupportedFile }

\* lists with the attachments that are skipped or fail to decode
DroppedFileLists == { Some(<<NoMimeFile>>), Some(<<NoPayloadFile, UnsupportedFile>>),
                      Some(<<UnsupportedFile, BadBase64File>>), Some(<<BadBase64File, PdfFile>>) }

RECURSIVE SeqsUpTo(_, _)
SeqsUpTo(S, n) ==
    IF n = 0 THEN { <<>> }
    ELSE LET shorter == SeqsUpTo(S, n - 1)
         IN shorter \cup { Append(q, x) : q \in { t \in shorter : Len(t) = n - 1 }, x \in S }

FileLists == { None } \cup DroppedFileLists
             \cup { Some(fs) : fs \in SeqsUpTo(Attachments, MaxFiles) }

Boards == { None, Some(<<" ","c","b","s","e","\n">>), Some(<<"X","Y","Z">>),
            Some(<<" "," ">>) }

Questions == { None, Some(<<" ","\t">>), Some(<<" ","q","?"," ">>) }

AllPayloads ==
    [ board : Boards, class_level : { None }, subject : { Some(<<" ","M"," ">>) },
      chapter : { None }, question : Questions, model : { None, Some(<<"T","2">>) },
      files : FileLists ]

\* file lists tried with every combination of the other fields
FewFileLists == { None, Some(<<>>), Some(<<PdfFile>>), Some(<<NoMimeFile>>),
                  Some(<<NoPayloadFile, UnsupportedFile>>) }

\* every field combination with a few file lists, every file list with the
\* default board, question and model
Payloads ==
    { p \in AllPayloads : \/ p.files \in FewFileLists
                          \/ p.board = None /\ p.question = None /\ p.model = None }

NoPayload == [ board |-> None, class_level |-> None, subject |-> None,
               chapter |-> None, question |-> None, model |-> None, files |-> None ]

(***************************************************************************)
(* State.  Everything but the last two variables is kept per request.      *)
(***************************************************************************)
VARIABLES
    payload,            \* the posted JSON object
    pc,                 \* position of the request in ask_question / stream
    http,               \* "none", "200" or the detail of the HTTPException(400)
    board, question, model_name,
    prompt_text,        \* flat sequence of tokens
    contents,           \* the Content Parts
    uploaded_file_uris, \* retained file names, in upload order
    file_errors,        \* recorded non-fatal errors, each a token sequence
    fidx,               \* index of the file the for loop is at
    uploaded,           \* upload_file_to_gemini: the local `uploaded`
    attempt,            \* upload_file_to_gemini: the loop variable
    upload_log,         \* how each call of upload_file_to_gemini ended
    chunk_count,        \* stream: non-empty fragments forwarded
    pulls,              \* stream: fragments pulled so far
    frames,             \* SSE frames yielded so far
    stream_outcome,     \* what ended the try block of stream()
    stream_error,       \* str(e) of the exception that ended it, if any
    didx,               \* cleanup: index into uploaded_file_uris
    remote_calls,       \* per request: the calls made on `client`, as a set
    deleted,            \* per request: the names passed to client.files.delete, in order
    generate_args,      \* per request: the arguments of each generation call made
    remote_files,       \* file store of the remote service: names that exist
    next_handle         \* next file name the remote service hands out

reqvars == <<payload, pc, http, board, question, model_name, prompt_text,
             contents, uploaded_file_uris, file_errors, fidx, uploaded,
             attempt, upload_log, chunk_count, pulls, frames, stream_outcome,
             stream_error, didx, remote_calls, deleted, generate_args>>
vars == <<payload, pc, http, board, question, model_name, prompt_text,
          contents, uploaded_file_uris, file_errors, fidx, uploaded,
          attempt, upload_log, chunk_count, pulls, frames, stream_outcome,
          stream_error, didx, remote_calls, deleted, generate_args,
          remote_files, next_handle>>

NoUpload == [name |-> 0, state |-> "NONE"]

\* the files list the handler iterates: payload.get("files") or []
Files(r) == OrDefault(payload[r].files, <<>>)

(***************************************************************************)
(* PROMPT: the f-string of ask_question.  The fixed text is kept as        *)
(* literal tokens (shortened); the five fields are spliced in.             *)
(***************************************************************************)
QuestionOpen == " has asked the following question:\n\n\"\"\""
QuestionClose == "\"\"\"\n\nYour task is to answer strictly according to the "

ComposePrompt(b, cl, su, ch, q) ==
    Str("\nYou are an expert ") \o b \o Str(" Class ") \o cl \o Str(" teacher.\n\nBoard: ")
    \o b \o Str("\nSubject: ") \o su \o Str("\nChapter: ") \o ch
    \o Str("\n\nA student from Class ") \o cl \o Str(QuestionOpen) \o q \o Str(QuestionClose)
    \o b \o Str(" syllabus and exam pattern.\n\nREQUIREMENTS: ... Use only ")
    \o b \o Str(" Class ") \o cl \o Str(" level methods. ... Suitable for Class ")
    \o cl \o Str(" students ... officially taught at Class ") \o cl \o Str(" level for ")
    \o b \o Str(". ... Always relate file content back to ") \o b \o Str(" Class ")
    \o cl \o Str(" ") \o su \o Str(" syllabus\n")

DefaultQuestion == Str("Please analyse this and answer any questions based on it.")

\* nothing has run yet: the locals of ask_question and stream() are unset and
\* the remote file store is empty
Fresh ==
    /\ http = [r \in Reqs |-> "none"]
    /\ board = [r \in Reqs |-> <<>>]
    /\ question = [r \in Reqs |-> <<>>]
    /\ model_name = [r \in Reqs |-> ""]
    /\ prompt_text = [r \in Reqs |-> <<>>]
    /\ contents = [r \in Reqs |-> <<>>]
    /\ uploaded_file_uris = [r \in Reqs |-> <<>>]
    /\ file_errors = [r \in Reqs |-> <<>>]
    /\ fidx = [r \in Reqs |-> 0]
    /\ uploaded = [r \in Reqs |-> NoUpload]
    /\ attempt = [r \in Reqs |-> 0]
    /\ upload_log = [r \in Reqs |-> <<>>]
    /\ chunk_count = [r \in Reqs |-> 0]
    /\ pulls = [r \in Reqs |-> 0]
    /\ frames = [r \in Reqs |-> <<>>]
    /\ stream_outcome = [r \in Reqs |-> "none"]
    /\ stream_error = [r \in Reqs |-> <<>>]
    /\ didx = [r \in Reqs |-> 0]
    /\ remote_calls = [r \in Reqs |-> {}]
    /\ deleted = [r \in Reqs |-> <<>>]
    /\ generate_args = [r \in Reqs |-> <<>>]
    /\ remote_files = {}
    /\ next_handle = 1

\* one request is served, with any of the payloads
Init ==
    /\ payload \in [Reqs -> Payloads \cup {NoPayload}]
    /\ payload[1] \in Payloads
    /\ payload[2] = NoPayload
    /\ pc = [r \in Reqs |-> IF r = 1 THEN "start" ELSE "none"]
    /\ Fresh

(***************************************************************************)
(* ask_question, lines 116-222: normalisation, validation, model select,   *)
(* prompt, and the three empty lists.                                      *)
(***************************************************************************)
NormBoard(p) == Upper(Strip(OrDefault(p.board, <<"I","C","S","E">>)))
NormQuestion(p) == Strip(OrDefault(p.question, <<>>))
NormFiles(p) == OrDefault(p.files, <<>>)

\* variant: no default analysis sentence
EffectiveQuestion_NoDefault(q, files) == q

\* the question the prompt embeds
EffectiveQuestion(q, files) == IF q = <<>> /\ files # <<>> THEN DefaultQuestion ELSE q

ModelSelect(p) == IF Lower(OrDefault(p.model, <<"t","1">>)) = <<"t","2">>
                  THEN "gemini-3-flash-preview" ELSE "gemini-2.5-flash-lite"

\* variant: the missing-input check comes first
Validation_MissingInputFirst(b, q, files) ==
    IF q = <<>> /\ files = <<>> THEN "400:Question or file required"
    ELSE IF b \notin ALLOWED_BOARDS THEN "400:Invalid board"
    ELSE "ok"

\* variant: the files list is not consulted
Validation_QuestionOnly(b, q, files) ==
    IF b \notin ALLOWED_BOARDS THEN "400:Invalid board"
    ELSE IF q = <<>> THEN "400:Question or file required"
    ELSE "ok"

\* the HTTPException the validation raises, or "ok"
Validation(b, q, files) ==
    IF b \notin ALLOWED_BOARDS THEN "400:Invalid board"
    ELSE IF q = <<>> /\ files = <<>> THEN "400:Question or file required"
    ELSE "ok"

Receive(r) ==
    /\ pc[r] = "start"
    /\ LET p == payload[r]
           b == NormBoard(p)
           cl == Strip(OrDefault(p.class_level, <<"1","0">>))
           su == Strip(OrDefault(p.subject, <<"G","e","n","e","r","a","l">>))
           ch == Strip(OrDefault(p.chapter, <<"G","e","n","e","r","a","l">>))
           q == NormQuestion(p)
           v == Validation(b, q, NormFiles(p))
       IN /\ board' = [board EXCEPT ![r] = b]
          /\ IF v # "ok"
             THEN /\ http' = [http EXCEPT ![r] = v]
                  /\ pc' = [pc EXCEPT ![r] = "rejected"]
                  /\ question' = [question EXCEPT ![r] = q]
                  /\ UNCHANGED <<model_name, prompt_text, fidx>>
             ELSE /\ question' = [question EXCEPT ![r] = EffectiveQuestion(q, NormFiles(p))]
                  /\ model_name' = [model_name EXCEPT ![r] = ModelSelect(p)]
                  /\ prompt_text' = [prompt_text EXCEPT ![r] =
                        ComposePrompt(b, cl, su, ch, EffectiveQuestion(q, NormFiles(p)))]
                  /\ fidx' = [fidx EXCEPT ![r] = 1]
                  /\ pc' = [pc EXCEPT ![r] = "files"]
                  /\ UNCHANGED http
    /\ UNCHANGED <<payload, upload_log, stream_outcome, stream_error, 
                   contents, uploaded_file_uris, file_errors, uploaded,
                   attempt, chunk_count, pulls, frames, didx,
                   remote_calls, deleted, generate_args, remote_files, next_handle>>

(***************************************************************************)
(* The attachment loop, lines 224-271.                                     *)
(***************************************************************************)
CurFile(r) == Files(r)[fidx[r]]

\* the outcome of a call of upload_file_to_gemini: "ACTIVE" when it returned
\* the handle, otherwise what made it raise
LogUpload(r, name, result) ==
    upload_log' = [upload_log EXCEPT ![r] =
                      Append(@, [file |-> fidx[r], name |-> name, result |-> result])]

FileName(f) == GetDefault(f.name, "file")

InLoop(r) == pc[r] = "files" /\ fidx[r] <= Len(Files(r))

UnsupportedError(f) ==
    <<"File '", FileName(f), "' (", f.mimeType, ") is unsupported">>

DecodeError(f) ==
    <<"Could not decode '", FileName(f), "': ", "Incorrect padding">>

UriPart(name) == [kind |-> "uri", val |-> <<name>>, mime |-> "application/pdf"]
BytesPart(data, mime) == [kind |-> "bytes", val |-> data, mime |-> mime]
TextPart(text) == [kind |-> "text", val |-> text, mime |-> ""]

Call(op, name) == [op |-> op, name |-> name]

\* `continue`, or the end of the loop body
NextFile(r) == fidx' = [fidx EXCEPT ![r] = @ + 1]

\* if not b64 or not mime: continue
SkipFile(r) ==
    /\ InLoop(r)
    /\ CurFile(r).base64 = <<>> \/ CurFile(r).mimeType = ""
    /\ NextFile(r)
    /\ UNCHANGED <<payload, upload_log, stream_outcome, stream_error, 
                   pc, http, board, question, model_name, prompt_text,
                   contents, uploaded_file_uris, file_errors, uploaded, attempt,
                   chunk_count, pulls, frames, didx,
                   remote_calls, deleted, generate_args, remote_files, next_handle>>

Decodable(f) == f.base64 # <<>> /\ f.mimeType # "" /\ f.mimeType \in SUPPORTED_MIME_TYPES

\* if mime not in SUPPORTED_MIME_TYPES: record, continue
RejectUnsupported(r) ==
    /\ InLoop(r)
    /\ CurFile(r).base64 # <<>> /\ CurFile(r).mimeType # ""
    /\ CurFile(r).mimeType \notin SUPPORTED_MIME_TYPES
    /\ file_errors' = [file_errors EXCEPT ![r] = Append(@, UnsupportedError(CurFile(r)))]
    /\ NextFile(r)
    /\ UNCHANGED <<payload, upload_log, stream_outcome, stream_error, 
                   pc, http, board, question, model_name, prompt_text,
                   contents, uploaded_file_uris, uploaded, attempt,
                   chunk_count, pulls, frames, didx,
                   remote_calls, deleted, generate_args, remote_files, next_handle>>

\* variant: `break` instead of `continue` after a decode error
DecodeFail_Breaks(r) ==
    /\ InLoop(r)
    /\ Decodable(CurFile(r))
    /\ ~b64decode(CurFile(r).base64).ok
    /\ file_errors' = [file_errors EXCEPT ![r] = Append(@, DecodeError(CurFile(r)))]
    /\ fidx' = [fidx EXCEPT ![r] = Len(Files(r)) + 1]
    /\ UNCHANGED <<payload, upload_log, stream_outcome, stream_error,
                   pc, http, board, question, model_name, prompt_text,
                   contents, uploaded_file_uris, uploaded, attempt,
                   chunk_count, pulls, frames, didx,
                   remote_calls, deleted, generate_args, remote_files, next_handle>>

\* base64.b64decode raises: record, continue
DecodeFail(r) ==
    /\ InLoop(r)
    /\ Decodable(CurFile(r))
    /\ ~b64decode(CurFile(r).base64).ok
    /\ file_errors' = [file_errors EXCEPT ![r] = Append(@, DecodeError(CurFile(r)))]
    /\ NextFile(r)
    /\ UNCHANGED <<payload, upload_log, stream_outcome, stream_error, 
                   pc, http, board, question, model_name, prompt_text,
                   contents, uploaded_file_uris, uploaded, attempt,
                   chunk_count, pulls, frames, didx,
                   remote_calls, deleted, generate_args, remote_files, next_handle>>

RawBytes(f) == b64decode(f.base64).bytes

Decoded(r) == InLoop(r) /\ Decodable(CurFile(r)) /\ b64decode(CurFile(r).base64).ok

\* text/plain: decode and splice into the prompt.  decode(errors="replace")
\* does not raise, so the except branch of lines 263-264 is not reachable.
TextBlock(name, text) ==
    <<"\n\n--- Content of ", name, " ---\n">> \o text \o <<"\n--- End of ", name, " ---">>

\* variant: the decoded text becomes a Content Part of its own
SpliceText_AsPart(r) ==
    /\ Decoded(r)
    /\ CurFile(r).mimeType = "text/plain"
    /\ contents' = [contents EXCEPT ![r] =
          Append(@, TextPart(DecodeUtf8Replace(RawBytes(CurFile(r)))))]
    /\ NextFile(r)
    /\ UNCHANGED <<payload, upload_log, stream_outcome, stream_error, pc, http, board,
                   question, model_name, prompt_text, uploaded_file_uris, file_errors,
                   uploaded, attempt, chunk_count, pulls, frames, didx,
                   remote_calls, deleted, generate_args, remote_files, next_handle>>

SpliceText(r) ==
    /\ Decoded(r)
    /\ CurFile(r).mimeType = "text/plain"
    /\ prompt_text' = [prompt_text EXCEPT ![r] =
          @ \o TextBlock(FileName(CurFile(r)), DecodeUtf8Replace(RawBytes(CurFile(r))))]
    /\ NextFile(r)
    /\ UNCHANGED <<payload, upload_log, stream_outcome, stream_error, 
                   pc, http, board, question, model_name,
                   contents, uploaded_file_uris, file_errors, uploaded, attempt,
                   chunk_count, pulls, frames, didx,
                   remote_calls, deleted, generate_args, remote_files, next_handle>>

\* images: inline_data.  Part.from_bytes builds the part from any bytes and
\* mime string, so the except branch of lines 270-271 is not reachable.
InlineImage(r) ==
    /\ Decoded(r)
    /\ CurFile(r).mimeType \notin {"application/pdf", "text/plain"}
    /\ contents' = [contents EXCEPT ![r] =
          Append(@, BytesPart(RawBytes(CurFile(r)), CurFile(r).mimeType))]
    /\ NextFile(r)
    /\ UNCHANGED <<payload, upload_log, stream_outcome, stream_error, 
                   pc, http, board, question, model_name, prompt_text,
                   uploaded_file_uris, file_errors, uploaded, attempt,
                   chunk_count, pulls, frames, didx,
                   remote_calls, deleted, generate_args, remote_files, next_handle>>

(***************************************************************************)
(* upload_file_to_gemini, lines 73-108, and its call site, lines 242-256.  *)
(* Whatever is raised inside is re-raised as "Failed to upload ..." and    *)
(* caught at the call site, which inlines the raw bytes instead.           *)
(***************************************************************************)
FileStates == {"PROCESSING", "ACTIVE", "FAILED"}

\* variant: a failed upload is recorded as a file error, nothing is inlined
InlineFallback_RecordsError(r) ==
    /\ file_errors' = [file_errors EXCEPT ![r] =
          Append(@, <<"Could not process PDF '", FileName(CurFile(r)), "'">>)]
    /\ uploaded' = [uploaded EXCEPT ![r] = NoUpload]
    /\ attempt' = [attempt EXCEPT ![r] = 0]
    /\ pc' = [pc EXCEPT ![r] = "files"]
    /\ NextFile(r)
    /\ UNCHANGED <<uploaded_file_uris, contents>>

\* except Exception at line 251: the inline fallback (Part.from_bytes of the
\* same bytes; as for images the inner except is not reachable)
InlineFallback(r) ==
    /\ contents' = [contents EXCEPT ![r] =
          Append(@, BytesPart(RawBytes(CurFile(r)), CurFile(r).mimeType))]
    /\ uploaded' = [uploaded EXCEPT ![r] = NoUpload]
    /\ attempt' = [attempt EXCEPT ![r] = 0]
    /\ pc' = [pc EXCEPT ![r] = "files"]
    /\ NextFile(r)
    /\ UNCHANGED <<uploaded_file_uris, file_errors>>

\* client.files.upload(...)
UploadCall(r) ==
    /\ Decoded(r)
    /\ CurFile(r).mimeType = "application/pdf"
    /\ \/ \E st \in FileStates :
            /\ attempt' = [attempt EXCEPT ![r] = 0]
            /\ uploaded' = [uploaded EXCEPT ![r] = [name |-> next_handle, state |-> st]]
            /\ remote_calls' = [remote_calls EXCEPT ![r] = @ \cup {Call("upload", next_handle)}]
            /\ remote_files' = remote_files \cup {next_handle}
            /\ next_handle' = next_handle + 1
            /\ pc' = [pc EXCEPT ![r] = "poll_check"]
            /\ UNCHANGED <<contents, uploaded_file_uris, file_errors, fidx, upload_log>>
       \/ /\ remote_calls' = [remote_calls EXCEPT ![r] = @ \cup {Call("upload", 0)}]
          /\ InlineFallback(r)
          /\ LogUpload(r, 0, "UPLOAD_RAISED")
          /\ UNCHANGED <<remote_files, next_handle>>
    /\ UNCHANGED <<payload, stream_outcome, stream_error, 
                   http, board, question, model_name, prompt_text,
                   chunk_count, pulls, frames, didx, deleted, generate_args>>

\* variant: uploaded_file_uris is one module-level list
PollCheck_SharedHandles(r) ==
    /\ pc[r] = "poll_check"
    /\ CASE uploaded[r].state = "ACTIVE" ->
              /\ contents' = [contents EXCEPT ![r] = Append(@, UriPart(uploaded[r].name))]
              /\ uploaded_file_uris' = [o \in Reqs |->
                                           Append(uploaded_file_uris[o], uploaded[r].name)]
              /\ uploaded' = [uploaded EXCEPT ![r] = NoUpload]
              /\ attempt' = [attempt EXCEPT ![r] = 0]
              /\ pc' = [pc EXCEPT ![r] = "files"]
              /\ NextFile(r)
              /\ LogUpload(r, uploaded[r].name, "ACTIVE")
              /\ UNCHANGED file_errors
         [] uploaded[r].state = "FAILED" ->
              /\ InlineFallback(r)
              /\ LogUpload(r, uploaded[r].name, "FAILED")
         [] OTHER ->
              /\ pc' = [pc EXCEPT ![r] = "poll_sleep"]
              /\ UNCHANGED <<contents, uploaded_file_uris, file_errors, fidx,
                             uploaded, attempt, upload_log>>
    /\ UNCHANGED <<payload, stream_outcome, stream_error,
                   http, board, question, model_name, prompt_text,
                   chunk_count, pulls, frames, didx,
                   remote_calls, deleted, generate_args, remote_files, next_handle>>

\* top of the polling loop body: the two state tests
PollCheck(r) ==
    /\ pc[r] = "poll_check"
    /\ CASE uploaded[r].state = "ACTIVE" ->
              \* return uploaded.uri, uploaded.name; lines 246-250
              /\ contents' = [contents EXCEPT ![r] = Append(@, UriPart(uploaded[r].name))]
              /\ uploaded_file_uris' = [uploaded_file_uris EXCEPT ![r] =
                                           Append(@, uploaded[r].name)]
              /\ uploaded' = [uploaded EXCEPT ![r] = NoUpload]
              /\ attempt' = [attempt EXCEPT ![r] = 0]
              /\ pc' = [pc EXCEPT ![r] = "files"]
              /\ NextFile(r)
              /\ LogUpload(r, uploaded[r].name, "ACTIVE")
              /\ UNCHANGED file_errors
         [] uploaded[r].state = "FAILED" ->
              \* raise Exception("File processing failed: ...")
              /\ InlineFallback(r)
              /\ LogUpload(r, uploaded[r].name, "FAILED")
         [] OTHER ->
              \* await asyncio.sleep(1)
              /\ pc' = [pc EXCEPT ![r] = "poll_sleep"]
              /\ UNCHANGED <<contents, uploaded_file_uris, file_errors, fidx,
                             uploaded, attempt, upload_log>>
    /\ UNCHANGED <<payload, stream_outcome, stream_error, 
                   http, board, question, model_name, prompt_text,
                   chunk_count, pulls, frames, didx,
                   remote_calls, deleted, generate_args, remote_files, next_handle>>

\* variant: `while True` instead of `for attempt in range(max_attempts)`
PollGet_NoBound(r) ==
    /\ pc[r] = "poll_sleep"
    /\ remote_calls' = [remote_calls EXCEPT ![r] = @ \cup {Call("get", uploaded[r].name)}]
    /\ \/ \E st \in FileStates :
            /\ uploaded' = [uploaded EXCEPT ![r].state = st]
            /\ pc' = [pc EXCEPT ![r] = "poll_check"]
            /\ UNCHANGED <<contents, uploaded_file_uris, file_errors, fidx,
                           upload_log, attempt>>
       \/ /\ InlineFallback(r)
          /\ LogUpload(r, uploaded[r].name, "GET_RAISED")
    /\ UNCHANGED <<payload, stream_outcome, stream_error,
                   http, board, question, model_name, prompt_text,
                   chunk_count, pulls, frames, didx, deleted, generate_args,
                   remote_files, next_handle>>

\* uploaded = client.files.get(name=uploaded.name) after the sleep, line 102:
\* the fetched state is stored in `uploaded`; then the next iteration of
\* `for attempt in range(max_attempts)` or, after the last one, the loop exit
PollGet(r) ==
    /\ pc[r] = "poll_sleep"
    /\ remote_calls' = [remote_calls EXCEPT ![r] = @ \cup {Call("get", uploaded[r].name)}]
    /\ \/ \E st \in FileStates :
            /\ uploaded' = [uploaded EXCEPT ![r].state = st]
            /\ attempt' = [attempt EXCEPT ![r] = @ + 1]
            /\ pc' = [pc EXCEPT ![r] = IF attempt[r] + 1 < max_attempts
                                       THEN "poll_check" ELSE "poll_timeout"]
            /\ UNCHANGED <<contents, uploaded_file_uris, file_errors, fidx,
                           upload_log>>
       \/ \* the get raises
          /\ InlineFallback(r)
          /\ LogUpload(r, uploaded[r].name, "GET_RAISED")
    /\ UNCHANGED <<payload, stream_outcome, stream_error,
                   http, board, question, model_name, prompt_text,
                   chunk_count, pulls, frames, didx, deleted, generate_args,
                   remote_files, next_handle>>

\* after the loop, line 105: raise Exception("File processing timeout ..."),
\* whatever the last get stored in `uploaded`
PollTimeout(r) ==
    /\ pc[r] = "poll_timeout"
    /\ InlineFallback(r)
    /\ LogUpload(r, uploaded[r].name, "TIMEOUT")
    /\ UNCHANGED <<payload, stream_outcome, stream_error,
                   http, board, question, model_name, prompt_text,
                   chunk_count, pulls, frames, didx,
                   remote_calls, deleted, generate_args, remote_files, next_handle>>

(***************************************************************************)
(* After the loop, lines 273-278 and the return at 335.                    *)
(***************************************************************************)
RECURSIVE Join(_, _)
Join(parts, sep) ==
    IF parts = <<>> THEN <<>>
    ELSE IF Len(parts) = 1 THEN parts[1]
    ELSE parts[1] \o <<sep>> \o Join(Tail(parts), sep)

NoteOpen == "\n\n[Note: Some files could not be processed: "

ErrorNote(errors) == <<NoteOpen>> \o Join(errors, "; ") \o <<"]">>

\* variant: one note per recorded error
RECURSIVE WithNote_PerError(_, _)
WithNote_PerError(text, errors) ==
    IF errors = <<>> THEN text
    ELSE WithNote_PerError(text \o <<NoteOpen>> \o Head(errors) \o <<"]">>, Tail(errors))

WithNote(text, errors) == IF errors # <<>> THEN text \o ErrorNote(errors) ELSE text

\* variant: contents = [prompt_text] + contents
BuildContents_TextFirst(r) ==
    /\ pc[r] = "files"
    /\ fidx[r] > Len(Files(r))
    /\ prompt_text' = [prompt_text EXCEPT ![r] = WithNote(@, file_errors[r])]
    /\ contents' = [contents EXCEPT ![r] =
          <<TextPart(WithNote(prompt_text[r], file_errors[r]))>> \o @]
    /\ http' = [http EXCEPT ![r] = "200"]
    /\ pc' = [pc EXCEPT ![r] = "stream_start"]
    /\ UNCHANGED <<payload, upload_log, stream_outcome, stream_error,
                   board, question, model_name, uploaded_file_uris,
                   file_errors, fidx, uploaded, attempt, chunk_count, pulls,
                   frames, didx, remote_calls, deleted, generate_args, remote_files, next_handle>>

\* contents.append(types.Part.from_text(text=prompt_text)), then the
\* StreamingResponse is returned
BuildContents(r) ==
    /\ pc[r] = "files"
    /\ fidx[r] > Len(Files(r))
    /\ prompt_text' = [prompt_text EXCEPT ![r] = WithNote(@, file_errors[r])]
    /\ contents' = [contents EXCEPT ![r] =
          Append(@, TextPart(WithNote(prompt_text[r], file_errors[r])))]
    /\ http' = [http EXCEPT ![r] = "200"]
    /\ pc' = [pc EXCEPT ![r] = "stream_start"]
    /\ UNCHANGED <<payload, upload_log, stream_outcome, stream_error, 
                   board, question, model_name, uploaded_file_uris,
                   file_errors, fidx, uploaded, attempt, chunk_count, pulls,
                   frames, didx, remote_calls, deleted, generate_args, remote_files, next_handle>>

(***************************************************************************)
(* stream(), lines 283-333.                                                *)
(***************************************************************************)
\* messages of the exceptions the remote service raises
ErrMsgs == { <<"Q","u","o","t","a"," ","h","i","t">>,
             <<"b","a","d"," ","A","P","I"," ","k","e","y">>,
             <<"A","p","i"," ","K","e","y"," ","q","u","o","t","a">>,
             <<"b","o","o","m">> }

\* chunk.text of a pulled fragment; <<>> is None or ""
FragmentTexts == { <<>>, <<"H","\"">> }

\* sub in s
Contains(s, sub) ==
    \E i \in 0..(Len(s) - Len(sub)) : SubSeq(s, i + 1, i + Len(sub)) = sub

\* variant: the API-key test comes first
ClassifyError_ApiKeyFirst(msg) ==
    IF Contains(Lower(msg), <<"a","p","i"," ","k","e","y">>)
    THEN Str("API configuration error. Please contact support.")
    ELSE IF Contains(Lower(msg), <<"q","u","o","t","a">>)
    THEN Str("API quota exceeded. Please try again later.")
    ELSE msg

\* the message the error event carries, lines 319-326
ClassifyError(msg) ==
    IF Contains(Lower(msg), <<"q","u","o","t","a">>)
    THEN Str("API quota exceeded. Please try again later.")
    ELSE IF Contains(Lower(msg), <<"a","p","i"," ","k","e","y">>)
    THEN Str("API configuration error. Please contact support.")
    ELSE msg

EscapeChar(c) == CASE c = "\"" -> "\\\""
                   [] c = "\\" -> "\\\\"
                   [] c = "\n" -> "\\n"
                   [] c = "\t" -> "\\t"
                   [] OTHER -> c

\* json.dumps of a string of the fragment alphabet
JsonDumps(text) == Str("\"") \o [i \in 1..Len(text) |-> EscapeChar(text[i])] \o Str("\"")

DataFrame(text) == [event |-> "data", data |-> JsonDumps(text)]
EndFrame == [event |-> "end", data |-> Str("done")]
ErrorFrame(msg) == [event |-> "error", data |-> ClassifyError(msg)]

Emit(r, frame) == frames' = [frames EXCEPT ![r] = Append(@, frame)]

Outcome(r, kind, msg) ==
    /\ stream_outcome' = [stream_outcome EXCEPT ![r] = kind]
    /\ stream_error' = [stream_error EXCEPT ![r] = msg]

\* variant: no finally clause
ToCleanup_NoFinally(r) ==
    /\ pc' = [pc EXCEPT ![r] = "done"]
    /\ didx' = [didx EXCEPT ![r] = 1]

\* leaving the try block: the finally clause runs next
ToCleanup(r) ==
    /\ pc' = [pc EXCEPT ![r] = "cleanup"]
    /\ didx' = [didx EXCEPT ![r] = 1]

\* client.models.generate_content_stream(...)
GenerateCall(r) ==
    /\ pc[r] = "stream_start"
    /\ remote_calls' = [remote_calls EXCEPT ![r] = @ \cup {Call("generate", 0)}]
    /\ generate_args' = [generate_args EXCEPT ![r] =
          Append(@, [model |-> model_name[r], contents |-> contents[r]])]
    /\ \/ /\ pc' = [pc EXCEPT ![r] = "pulling"]
          /\ UNCHANGED <<frames, didx, stream_outcome, stream_error>>
       \/ \E m \in ErrMsgs :
            /\ Outcome(r, "generate_raised", m)
            /\ Emit(r, ErrorFrame(m))
            /\ ToCleanup(r)
    /\ UNCHANGED <<payload, upload_log, 
                   http, board, question, model_name, prompt_text,
                   contents, uploaded_file_uris, file_errors, fidx, uploaded,
                   attempt, chunk_count, pulls, deleted, remote_files, next_handle>>

\* one iteration of the while loop: the pull returns a fragment
PullChunk(r) ==
    /\ pc[r] = "pulling"
    /\ pulls[r] < MaxChunks
    /\ pulls' = [pulls EXCEPT ![r] = @ + 1]
    /\ \E text \in FragmentTexts :
         IF text # <<>>
         THEN /\ chunk_count' = [chunk_count EXCEPT ![r] = @ + 1]
              /\ Emit(r, DataFrame(text))
         ELSE UNCHANGED <<chunk_count, frames>>
    /\ UNCHANGED <<payload, upload_log, stream_outcome, stream_error, 
                   pc, http, board, question, model_name, prompt_text,
                   contents, uploaded_file_uris, file_errors, fidx, uploaded,
                   attempt, didx, remote_calls, deleted, generate_args, remote_files, next_handle>>

\* variant: the loop is left without the end event
PullEnd_NoEndEvent(r) ==
    /\ pc[r] = "pulling"
    /\ Outcome(r, "sentinel", <<>>)
    /\ ToCleanup(r)
    /\ UNCHANGED <<payload, upload_log, http, board, question, model_name, prompt_text,
                   contents, uploaded_file_uris, file_errors, fidx, uploaded,
                   attempt, chunk_count, pulls, frames, remote_calls, deleted, generate_args,
                   remote_files, next_handle>>

\* the pull returns the sentinel None: break, then the end event
PullEnd(r) ==
    /\ pc[r] = "pulling"
    /\ Outcome(r, "sentinel", <<>>)
    /\ Emit(r, EndFrame)
    /\ ToCleanup(r)
    /\ UNCHANGED <<payload, upload_log, 
                   http, board, question, model_name, prompt_text,
                   contents, uploaded_file_uris, file_errors, fidx, uploaded,
                   attempt, chunk_count, pulls, remote_calls, deleted, generate_args,
                   remote_files, next_handle>>

\* variant: every pull failure breaks out of the loop
PullRaise_NeverError(r) ==
    /\ pc[r] = "pulling"
    /\ \E m \in ErrMsgs :
         /\ Outcome(r, "pull_raised", m)
         /\ Emit(r, EndFrame)
    /\ ToCleanup(r)
    /\ UNCHANGED <<payload, upload_log, http, board, question, model_name, prompt_text,
                   contents, uploaded_file_uris, file_errors, fidx, uploaded,
                   attempt, chunk_count, pulls, remote_calls, deleted, generate_args,
                   remote_files, next_handle>>

\* variant: every pull failure is re-raised to the outer handler
PullRaise_AlwaysError(r) ==
    /\ pc[r] = "pulling"
    /\ \E m \in ErrMsgs :
         /\ Outcome(r, "pull_raised", m)
         /\ Emit(r, ErrorFrame(m))
    /\ ToCleanup(r)
    /\ UNCHANGED <<payload, upload_log, http, board, question, model_name, prompt_text,
                   contents, uploaded_file_uris, file_errors, fidx, uploaded,
                   attempt, chunk_count, pulls, remote_calls, deleted, generate_args,
                   remote_files, next_handle>>

\* the pull raises: re-raised to the outer handler when nothing was sent,
\* otherwise break and the end event
PullRaise(r) ==
    /\ pc[r] = "pulling"
    /\ \E m \in ErrMsgs :
         /\ Outcome(r, "pull_raised", m)
         /\ IF chunk_count[r] = 0
            THEN Emit(r, ErrorFrame(m))
            ELSE Emit(r, EndFrame)
    /\ ToCleanup(r)
    /\ UNCHANGED <<payload, upload_log, 
                   http, board, question, model_name, prompt_text,
                   contents, uploaded_file_uris, file_errors, fidx, uploaded,
                   attempt, chunk_count, pulls, remote_calls, deleted, generate_args,
                   remote_files, next_handle>>

\* variant: no try/except around the delete
DeleteFile_Propagates(r) ==
    /\ pc[r] = "cleanup"
    /\ didx[r] <= Len(uploaded_file_uris[r])
    /\ LET file_name == uploaded_file_uris[r][didx[r]]
       IN /\ remote_calls' = [remote_calls EXCEPT ![r] = @ \cup {Call("delete", file_name)}]
          /\ deleted' = [deleted EXCEPT ![r] = Append(@, file_name)]
          /\ \/ /\ remote_files' = remote_files \ {file_name}
                /\ UNCHANGED pc
             \/ /\ UNCHANGED remote_files
                /\ pc' = [pc EXCEPT ![r] = "done"]
    /\ didx' = [didx EXCEPT ![r] = @ + 1]
    /\ UNCHANGED <<payload, upload_log, stream_outcome, stream_error,
                   http, board, question, model_name, prompt_text,
                   contents, uploaded_file_uris, file_errors, fidx, uploaded,
                   attempt, chunk_count, pulls, frames, generate_args, next_handle>>

\* finally: one iteration of the cleanup loop; a raising delete is swallowed
\* and leaves the file in the remote store
DeleteFile(r) ==
    /\ pc[r] = "cleanup"
    /\ didx[r] <= Len(uploaded_file_uris[r])
    /\ LET file_name == uploaded_file_uris[r][didx[r]]
       IN /\ remote_calls' = [remote_calls EXCEPT ![r] = @ \cup {Call("delete", file_name)}]
          /\ deleted' = [deleted EXCEPT ![r] = Append(@, file_name)]
          /\ \/ remote_files' = remote_files \ {file_name}
             \/ UNCHANGED remote_files
    /\ didx' = [didx EXCEPT ![r] = @ + 1]
    /\ UNCHANGED <<payload, upload_log, stream_outcome, stream_error, 
                   pc, http, board, question, model_name, prompt_text,
                   contents, uploaded_file_uris, file_errors, fidx, uploaded,
                   attempt, chunk_count, pulls, frames, generate_args, next_handle>>

\* the generator is exhausted
Finish(r) ==
    /\ pc[r] = "cleanup"
    /\ didx[r] > Len(uploaded_file_uris[r])
    /\ pc' = [pc EXCEPT ![r] = "done"]
    /\ UNCHANGED <<payload, upload_log, stream_outcome, stream_error, 
                   http, board, question, model_name, prompt_text,
                   contents, uploaded_file_uris, file_errors, fidx, uploaded,
                   attempt, chunk_count, pulls, frames, didx,
                   remote_calls, deleted, generate_args, remote_files, next_handle>>

Next ==
    \E r \in Reqs :
        \/ Receive(r)
        \/ SkipFile(r)
        \/ RejectUnsupported(r)
        \/ DecodeFail(r)
        \/ SpliceText(r)
        \/ InlineImage(r)
        \/ UploadCall(r)
        \/ PollCheck(r)
        \/ PollGet(r)
        \/ PollTimeout(r)
        \/ BuildContents(r)
        \/ GenerateCall(r)
        \/ PullChunk(r)
        \/ PullEnd(r)
        \/ PullRaise(r)
        \/ DeleteFile(r)
        \/ Finish(r)

Spec == Init /\ [][Next]_vars

(***************************************************************************)
(* One request under fairness.  The event loop resumes a coroutine that is *)
(* ready, asyncio.sleep(1) completes and a call on `client` returns or     *)
(* raises, so a request that can take a step eventually takes one.         *)
(***************************************************************************)
FairFileLists ==
    { Some(<<PdfFile>>), Some(<<PdfFile, PdfFile>>),
      Some(<<NoPayloadFile, UnsupportedFile>>), Some(<<BadBase64File, PdfFile>>),
      Some(<<[name |-> Some(TxtName), mimeType |-> "text/plain", base64 |-> B64_Mixed],
             [name |-> Some("i.png"), mimeType |-> "image/png", base64 |-> B64_AB]>>) }

FairPayloads ==
    { p \in AllPayloads : /\ p.board = None /\ p.question = None /\ p.model = None
                          /\ p.files \in FairFileLists }

FairInit ==
    /\ payload \in [Reqs -> FairPayloads \cup {NoPayload}]
    /\ payload[1] \in FairPayloads
    /\ payload[2] = NoPayload
    /\ pc = [r \in Reqs |-> IF r = 1 THEN "start" ELSE "none"]
    /\ Fresh

FairSpec == FairInit /\ [][Next]_vars /\ WF_vars(Next)

(***************************************************************************)
(* Two requests served concurrently by the event loop.  Each runs its own  *)
(* call of ask_question and its own stream() generator; the steps of the   *)
(* two interleave in any order, which includes every order of their        *)
(* suspension points.  One request carries the attachments that are       *)
(* skipped, rejected, spliced and inlined, the other a PDF to upload.      *)
(***************************************************************************)
MixedFiles ==
    <<NoPayloadFile, UnsupportedFile, BadBase64File,
      [name |-> Some(TxtName), mimeType |-> "text/plain", base64 |-> B64_Mixed],
      [name |-> Some("i.png"), mimeType |-> "image/png", base64 |-> B64_AB]>>

ConcPayload(fs) ==
    [ board |-> None, class_level |-> None, subject |-> Some(<<" ","M"," ">>),
      chapter |-> None, question |-> None, model |-> None, files |-> Some(fs) ]

ConcInit ==
    /\ payload = [r \in Reqs |-> IF r = 1 THEN ConcPayload(MixedFiles)
                                         ELSE ConcPayload(<<PdfFile>>)]
    /\ pc = [r \in Reqs |-> "start"]
    /\ Fresh

ConcSpec == ConcInit /\ [][Next]_vars

(***************************************************************************)
(* Properties.                                                             *)
(***************************************************************************)
Last(s) == s[Len(s)]

Range(s) == { s[i] : i \in 1..Len(s) }

\* number of positions of s holding x
Count(s, x) == Cardinality({ i \in 1..Len(s) : s[i] = x })

Terminal(frame) == frame.event \in {"end", "error"}

TerminalCount(fs) == Cardinality({ i \in 1..Len(fs) : Terminal(fs[i]) })

\* the request passed validation and its stream generator ran to exhaustion
Exhausted(r) == pc[r] = "done"

\* C1: every file name retained in uploaded_file_uris is passed to exactly one
\* client.files.delete call once the generator is exhausted, whatever ended
\* the stream; a delete is only ever issued when the terminal frame (end or
\* error) is already the last frame emitted, and no frame follows a delete.
C1_DeletesAtExit ==
    \A r \in Reqs :
        /\ Exhausted(r) =>
              /\ \A i \in 1..Len(uploaded_file_uris[r]) :
                    Count(deleted[r], uploaded_file_uris[r][i]) = 1
              /\ Range(deleted[r]) \subseteq Range(uploaded_file_uris[r])
        /\ deleted[r] # <<>> =>
              /\ pc[r] \in {"cleanup", "done"}
              /\ frames[r] # <<>>
              /\ Terminal(Last(frames[r]))

C1_DeleteStep ==
    \A r \in Reqs :
        /\ deleted'[r] # deleted[r] =>
              /\ frames[r] # <<>> /\ Terminal(Last(frames[r]))
              /\ frames'[r] = frames[r]
        /\ deleted[r] # <<>> => frames'[r] = frames[r]

C1_ExactlyOneDeleteAfterStream == []C1_DeletesAtExit /\ [][C1_DeleteStep]_vars

\* two retained handles, a stream that failed before any fragment, both deleted
C1_Witness ==
    /\ Exhausted(1)
    /\ Len(uploaded_file_uris[1]) = 2
    /\ deleted[1] = uploaded_file_uris[1]
    /\ stream_outcome[1] = "pull_raised"
    /\ chunk_count[1] = 0

\* C2: when a pull raises after at least one non-empty fragment was forwarded
\* as a data frame, the client receives the end event and never an error event.
C2_LateFailureEndsQuietly ==
    \A r \in Reqs :
        (stream_outcome[r] = "pull_raised" /\ chunk_count[r] > 0) =>
            /\ \E i \in 1..Len(frames[r]) : frames[r][i].event = "data"
            /\ Last(frames[r]) = EndFrame
            /\ \A i \in 1..Len(frames[r]) : frames[r][i].event # "error"

C2_Witness ==
    /\ Exhausted(1)
    /\ stream_outcome[1] = "pull_raised"
    /\ chunk_count[1] = 1
    /\ Len(frames[1]) = 2

\* C3: a generator run to exhaustion has emitted exactly one terminal frame,
\* it is the last frame, it is `end` when the loop was left by the sentinel
\* or by a failure after a forwarded fragment, and `error` when the generation
\* call raised or a pull raised before any fragment was forwarded; at no time
\* is there a second terminal frame or a frame after the terminal one.
C3_OneTerminalFrame ==
    \A r \in Reqs :
        /\ TerminalCount(frames[r]) <= 1
        /\ \A i \in 1..Len(frames[r]) : Terminal(frames[r][i]) => i = Len(frames[r])
        /\ Exhausted(r) =>
              /\ TerminalCount(frames[r]) = 1
              /\ Last(frames[r]).event = "end" <=>
                    \/ stream_outcome[r] = "sentinel"
                    \/ stream_outcome[r] = "pull_raised" /\ chunk_count[r] > 0
              /\ Last(frames[r]).event = "error" <=>
                    \/ stream_outcome[r] = "generate_raised"
                    \/ stream_outcome[r] = "pull_raised" /\ chunk_count[r] = 0

\* data frames followed by the end event after the sentinel
C3_Witness ==
    /\ Exhausted(1)
    /\ stream_outcome[1] = "sentinel"
    /\ Len(frames[1]) = 3
    /\ frames[1][1].event = "data"
    /\ frames[1][3].event = "end"

\* the request has been handled up to its first response
Handled(r) == pc[r] \notin {"none", "start"}

\* the board as the validator sees it: stripped, upper-cased, ICSE by default
BoardOf(r) ==
    LET raw == IF payload[r].board.some /\ payload[r].board.v # <<>>
               THEN payload[r].board.v ELSE <<"I","C","S","E">>
    IN Upper(Strip(raw))

ValidBoard(r) == BoardOf(r) \in { <<"I","C","S","E">>, <<"C","B","S","E">>, <<"S","S","L","C">> }

\* C4: a request whose normalised board is outside {ICSE, CBSE, SSLC} fails
\* with 400 "Invalid board" and has made no call on the remote service.
C4_InvalidBoardRejected ==
    \A r \in Reqs :
        (Handled(r) /\ ~ValidBoard(r)) =>
            /\ http[r] = "400:Invalid board"
            /\ pc[r] = "rejected"
            /\ remote_calls[r] = {}
            /\ frames[r] = <<>>

\* a board of blanks only is not defaulted and is rejected
C4_Witness ==
    /\ payload[1].board = Some(<<" "," ">>)
    /\ payload[1].question = None
    /\ payload[1].files = None
    /\ http[1] = "400:Invalid board"

\* the question after stripping, and the files list, as the validator sees them
QuestionOf(r) == IF payload[r].question.some THEN Strip(payload[r].question.v) ELSE <<>>

FilesOf(r) == IF payload[r].files.some THEN payload[r].files.v ELSE <<>>

\* C5: with a valid board, the request is rejected with 400 "Question or file
\* required" exactly when the stripped question is empty and the files list is
\* empty or absent; the rejected request starts no stream and makes no call
\* on the remote service.
C5_MissingInputRejected ==
    \A r \in Reqs :
        (Handled(r) /\ ValidBoard(r)) =>
            /\ http[r] = "400:Question or file required" <=>
                  (QuestionOf(r) = <<>> /\ FilesOf(r) = <<>>)
            /\ (QuestionOf(r) = <<>> /\ FilesOf(r) = <<>>) =>
                  /\ pc[r] = "rejected"
                  /\ frames[r] = <<>>
                  /\ remote_calls[r] = {}
            /\ (QuestionOf(r) # <<>> \/ FilesOf(r) # <<>>) =>
                  /\ pc[r] # "rejected"
                  /\ http[r] \in {"none", "200"}

\* a question of blanks only and an empty files list
C5_Witness ==
    /\ payload[1].board = Some(<<" ","c","b","s","e","\n">>)
    /\ payload[1].question = Some(<<" ","\t">>)
    /\ payload[1].files = Some(<<>>)
    /\ http[1] = "400:Question or file required"
    /\ pc[1] = "rejected"

\* first position of token t in s, 0 when absent
IndexOf(s, t) == IF \E i \in 1..Len(s) : s[i] = t
                 THEN CHOOSE i \in 1..Len(s) : s[i] = t /\ \A j \in 1..(i - 1) : s[j] # t
                 ELSE 0

\* sub occurs in s as a contiguous run
Occurs(s, sub) == \E i \in 0..(Len(s) - Len(sub)) : SubSeq(s, i + 1, i + Len(sub)) = sub

\* the text between the triple quotes of the prompt
EmbeddedQuestion(text) ==
    SubSeq(text, IndexOf(text, " has asked the following question:\n\n\"\"\"") + 1,
                 IndexOf(text, "\"\"\"\n\nYour task is to answer strictly according to the ") - 1)

\* the request passed validation and its prompt was composed
Composed(r) == pc[r] \notin {"none", "start", "rejected"}

\* the prompt text handed to the generation call: the last Content Part
FinalPrompt(r) == Last(contents[r]).val

Built(r) == pc[r] \in {"stream_start", "pulling", "cleanup", "done"}

\* C6: in a validated request the question embedded in the prompt is the
\* default analysis sentence when the stripped question is empty (the files
\* list is then non-empty, whatever becomes of the files), and the stripped
\* question itself otherwise; this holds of the prompt as composed and of the
\* prompt text passed to the generation call.
C6_DefaultQuestion ==
    \A r \in Reqs :
        Composed(r) =>
            LET expected == IF QuestionOf(r) = <<>>
                            THEN <<"Please analyse this and answer any questions based on it.">>
                            ELSE QuestionOf(r)
            IN /\ QuestionOf(r) = <<>> => FilesOf(r) # <<>>
               /\ EmbeddedQuestion(prompt_text[r]) = expected
               /\ Built(r) => EmbeddedQuestion(FinalPrompt(r)) = expected

\* no question, two files that are both dropped (one skipped, one rejected)
C6_Witness ==
    /\ Exhausted(1)
    /\ payload[1].question = None
    /\ Len(FilesOf(1)) = 2
    /\ Len(contents[1]) = 1
    /\ Len(file_errors[1]) = 1
    /\ EmbeddedQuestion(FinalPrompt(1))
          = <<"Please analyse this and answer any questions based on it.">>

\* the entry of upload_log for the file at position i, if any
UploadResult(r, i) ==
    IF \E k \in 1..Len(upload_log[r]) : upload_log[r][k].file = i
    THEN (CHOOSE e \in Range(upload_log[r]) : e.file = i).result
    ELSE "NONE"

IsInlinePdf(part, f) ==
    /\ part.kind = "bytes"
    /\ part.mime = "application/pdf"
    /\ part.val = b64decode(f.base64).bytes

\* C7: when the polled state of a PDF upload is FAILED the request goes on:
\* that step appends the file's raw bytes as an inline-bytes part, retains no
\* handle, records no error and moves to the next attachment; the request is
\* never rejected, and once its generator is exhausted every attachment was
\* visited and the generation call was made.
C7_FailedStep ==
    \A r \in Reqs :
        (pc[r] = "poll_check" /\ uploaded[r].state = "FAILED" /\ pc'[r] # pc[r]) =>
            /\ Len(contents'[r]) = Len(contents[r]) + 1
            /\ SubSeq(contents'[r], 1, Len(contents[r])) = contents[r]
            /\ IsInlinePdf(Last(contents'[r]), FilesOf(r)[fidx[r]])
            /\ uploaded_file_uris'[r] = uploaded_file_uris[r]
            /\ file_errors'[r] = file_errors[r]
            /\ pc'[r] = "files"
            /\ fidx'[r] = fidx[r] + 1
            /\ http'[r] = "none"

C7_AfterFailed ==
    \A r \in Reqs :
        \A k \in 1..Len(upload_log[r]) :
            upload_log[r][k].result = "FAILED" =>
                /\ pc[r] # "rejected"
                /\ http[r] \in {"none", "200"}
                /\ upload_log[r][k].name \notin Range(uploaded_file_uris[r])
                /\ \E j \in 1..Len(contents[r]) :
                      IsInlinePdf(contents[r][j], FilesOf(r)[upload_log[r][k].file])
                /\ Exhausted(r) =>
                      /\ fidx[r] = Len(FilesOf(r)) + 1
                      /\ [op |-> "generate", name |-> 0] \in remote_calls[r]

C7_FailedUploadFallsBackInline == []C7_AfterFailed /\ [][C7_FailedStep]_vars

\* a PDF whose upload FAILED, followed by an image that was still processed
C7_Witness ==
    /\ Exhausted(1)
    /\ Len(FilesOf(1)) = 2
    /\ UploadResult(1, 1) = "FAILED"
    /\ uploaded_file_uris[1] = <<>>
    /\ Len(contents[1]) = 3
    /\ contents[1][1] = [kind |-> "bytes", val |-> <<65, 66>>, mime |-> "application/pdf"]
    /\ contents[1][2].mime = "image/png"

\* C8: every file name returned by client.files.upload during a request has
\* been passed to client.files.delete when the request's generator is
\* exhausted, including uploads that ended FAILED or timed out.
C8_EveryReturnedHandleDeleted ==
    \A r \in Reqs :
        Exhausted(r) =>
            \A c \in remote_calls[r] :
                (c.op = "upload" /\ c.name # 0) => c.name \in Range(deleted[r])

\* the attachments that reach the mime test with a payload, and their kinds
HasPayload(f) == f.base64 # <<>> /\ f.mimeType # ""

Unsupported(f) ==
    /\ HasPayload(f)
    /\ f.mimeType \notin {"image/jpeg", "image/png", "image/gif", "image/webp",
                          "application/pdf", "text/plain"}

NameOf(f) == IF f.name.some THEN f.name.v ELSE "file"

\* attachments that end as a Content Part: decodable PDFs and images
YieldsPart(f) ==
    /\ HasPayload(f)
    /\ f.mimeType \in {"image/jpeg", "image/png", "image/gif", "image/webp",
                       "application/pdf"}
    /\ b64decode(f.base64).ok

NoteToken == "\n\n[Note: Some files could not be processed: "

\* the tokens of text after the first occurrence of the note opener
AfterNote(text) == SubSeq(text, IndexOf(text, NoteToken) + 1, Len(text))

\* C9: once the Content Parts are built, the prompt text passed to the
\* generation call holds exactly one "[Note: Some files could not be
\* processed: ...]" summary if some non-fatal file error was recorded and none
\* otherwise; the summary closes the text and lists every recorded error.
\* Every attachment with a payload and an unsupported mime type is named in it
\* as unsupported and adds no Content Part, and the request is served: it is
\* answered 200, and once the generator is exhausted the generation call was
\* made and a response was streamed.
C9_UnsupportedNoted ==
    \A r \in Reqs :
        Built(r) =>
            LET text == FinalPrompt(r)
                fs == FilesOf(r)
            IN /\ Count(text, NoteToken) = IF file_errors[r] = <<>> THEN 0 ELSE 1
               /\ file_errors[r] # <<>> =>
                     /\ Last(text) = "]"
                     /\ \A k \in 1..Len(file_errors[r]) :
                           Occurs(AfterNote(text), file_errors[r][k])
               /\ \A i \in 1..Len(fs) :
                     Unsupported(fs[i]) =>
                        /\ Occurs(AfterNote(text),
                                  <<"File '", NameOf(fs[i]), "' (", fs[i].mimeType,
                                    ") is unsupported">>)
                        /\ http[r] = "200"
                        /\ Exhausted(r) =>
                              /\ [op |-> "generate", name |-> 0] \in remote_calls[r]
                              /\ frames[r] # <<>>
               /\ Len(contents[r]) - 1
                     = Cardinality({ i \in 1..Len(fs) : YieldsPart(fs[i]) })

\* an unsupported file and an undecodable one: one note listing both errors
C9_Witness ==
    /\ Exhausted(1)
    /\ Len(FilesOf(1)) = 2
    /\ Unsupported(FilesOf(1)[1])
    /\ Len(file_errors[1]) = 2
    /\ Len(contents[1]) = 1
    /\ Count(FinalPrompt(1), NoteToken) = 1
    /\ Occurs(FinalPrompt(1),
              <<NoteToken, "File '", "file", "' (", "video/mp4", ") is unsupported", "; ",
                "Could not decode '", "b.txt", "': ", "Incorrect padding", "]">>)
    /\ stream_outcome[1] = "sentinel"

IsText(f) == HasPayload(f) /\ f.mimeType = "text/plain" /\ b64decode(f.base64).ok

\* the delimited block the prompt holds for a text attachment
Delimited(f) ==
    <<"\n\n--- Content of ", NameOf(f), " ---\n">>
    \o DecodeUtf8Replace(b64decode(f.base64).bytes)
    \o <<"\n--- End of ", NameOf(f), " ---">>

\* C10: the step that handles a text/plain attachment with a decodable payload
\* appends the delimited block with the UTF-8 decoding (invalid bytes
\* replaced) of the payload to the prompt text and leaves the Content Parts
\* unchanged; the block is part of the prompt text passed to the generation
\* call.
C10_TextStep ==
    \A r \in Reqs :
        (pc[r] = "files" /\ fidx[r] <= Len(FilesOf(r)) /\ IsText(FilesOf(r)[fidx[r]])
         /\ fidx'[r] # fidx[r]) =>
            /\ prompt_text'[r] = prompt_text[r] \o Delimited(FilesOf(r)[fidx[r]])
            /\ contents'[r] = contents[r]
            /\ file_errors'[r] = file_errors[r]
            /\ fidx'[r] = fidx[r] + 1

C10_TextInPrompt ==
    \A r \in Reqs :
        Built(r) =>
            \A i \in 1..Len(FilesOf(r)) :
                IsText(FilesOf(r)[i]) => Occurs(FinalPrompt(r), Delimited(FilesOf(r)[i]))

C10_TextSplicedIntoPrompt == []C10_TextInPrompt /\ [][C10_TextStep]_vars

\* b"A\xff\xc3\xa9" reads A, U+FFFD, U+00E9 between the markers; the only
\* Content Part is the prompt
C10_Witness ==
    /\ Exhausted(1)
    /\ Len(FilesOf(1)) = 1
    /\ FilesOf(1)[1].mimeType = "text/plain"
    /\ Len(contents[1]) = 1
    /\ file_errors[1] = <<>>
    /\ Occurs(FinalPrompt(1),
              <<"\n\n--- Content of ", "t.txt", " ---\n", "A", "U+FFFD", "233",
                "\n--- End of ", "t.txt", " ---">>)
    /\ Last(FinalPrompt(1)) = " ---"

\* the request is inside upload_file_to_gemini, after the upload call returned
Polling(r) == pc[r] \in {"poll_check", "poll_sleep", "poll_timeout"}

\* progress inside the polling loop: two per finished iteration, one more
\* once the check of the current iteration has passed
PollMeasure(r) == 2 * attempt[r] + (IF pc[r] = "poll_sleep" THEN 1 ELSE 0)

\* the file the loop of ask_question is at
FileAt(r) == FilesOf(r)[fidx[r]]

\* C11: upload_file_to_gemini terminates.  A state check is always one of
\* the first 30 (attempt 0..29); it returns the handle (retained, referenced
\* by a remote-file part) when it sees ACTIVE, raises when it sees FAILED and
\* sleeps otherwise; a further check only follows a sleep and a get; every
\* step inside the loop increases a measure bounded by 60, after the 30th
\* iteration the timeout is raised, and a request inside the routine always
\* leaves it.  At the call site FAILED and the timeout end the same way: the
\* raw bytes are appended as an inline-bytes part, no handle is retained, no
\* error is recorded and the loop moves to the next attachment.
C11_Bounded ==
    \A r \in Reqs :
        /\ pc[r] \in {"poll_check", "poll_sleep"} => attempt[r] \in 0..29
        /\ pc[r] = "poll_sleep" => uploaded[r].state \notin {"ACTIVE", "FAILED"}
        /\ pc[r] = "poll_timeout" => attempt[r] = 30
        /\ Polling(r) => PollMeasure(r) <= 60
        /\ \A k \in 1..Len(upload_log[r]) :
              LET e == upload_log[r][k]
              IN /\ e.result = "ACTIVE" => e.name \in Range(uploaded_file_uris[r])
                 /\ e.result \in {"FAILED", "TIMEOUT"} =>
                       /\ e.name \notin Range(uploaded_file_uris[r])
                       /\ \E j \in 1..Len(contents[r]) :
                             IsInlinePdf(contents[r][j], FilesOf(r)[e.file])

C11_FallsBack(r) ==
    /\ pc'[r] = "files"
    /\ fidx'[r] = fidx[r] + 1
    /\ contents'[r] = Append(contents[r],
                             [kind |-> "bytes", val |-> b64decode(FileAt(r).base64).bytes,
                              mime |-> "application/pdf"])
    /\ uploaded_file_uris'[r] = uploaded_file_uris[r]
    /\ file_errors'[r] = file_errors[r]

C11_Step ==
    \A r \in Reqs :
        /\ (pc[r] = "poll_check" /\ pc'[r] # pc[r]) =>
              CASE uploaded[r].state = "ACTIVE" ->
                     /\ pc'[r] = "files"
                     /\ fidx'[r] = fidx[r] + 1
                     /\ uploaded_file_uris'[r] = Append(uploaded_file_uris[r], uploaded[r].name)
                     /\ contents'[r] = Append(contents[r],
                                              [kind |-> "uri", val |-> <<uploaded[r].name>>,
                                               mime |-> "application/pdf"])
                     /\ Last(upload_log'[r]).result = "ACTIVE"
                [] uploaded[r].state = "FAILED" ->
                     /\ C11_FallsBack(r)
                     /\ Last(upload_log'[r]).result = "FAILED"
                [] OTHER ->
                     /\ pc'[r] = "poll_sleep"
                     /\ attempt'[r] = attempt[r]
        /\ (pc[r] = "poll_sleep" /\ pc'[r] # pc[r]) =>
              \/ /\ attempt'[r] = attempt[r] + 1
                 /\ pc'[r] = IF attempt[r] < 29 THEN "poll_check" ELSE "poll_timeout"
              \/ /\ C11_FallsBack(r)
                 /\ Last(upload_log'[r]).result = "GET_RAISED"
        /\ (pc[r] = "poll_timeout" /\ pc'[r] # pc[r]) =>
              /\ C11_FallsBack(r)
              /\ Last(upload_log'[r]).result = "TIMEOUT"
        /\ (Polling(r) /\ pc'[r] = "poll_check") => pc[r] = "poll_sleep"
        /\ (Polling(r) /\ pc'[r] # pc[r] /\ pc'[r] \in {"poll_check", "poll_sleep", "poll_timeout"})
              => PollMeasure(r)' > PollMeasure(r)

C11_Leaves == \A r \in Reqs : Polling(r) ~> ~Polling(r)

C11_UploadTerminates == []C11_Bounded /\ [][C11_Step]_vars /\ C11_Leaves

\* a PDF that stayed PROCESSING through all 30 checks: inlined, nothing retained
C11_Witness ==
    /\ Exhausted(1)
    /\ Len(FilesOf(1)) = 1
    /\ UploadResult(1, 1) = "TIMEOUT"
    /\ uploaded_file_uris[1] = <<>>
    /\ file_errors[1] = <<>>
    /\ Len(contents[1]) = 2
    /\ contents[1][1] = [kind |-> "bytes", val |-> <<65, 66>>, mime |-> "application/pdf"]
    /\ [op |-> "generate", name |-> 0] \in remote_calls[1]

\* position in fs of the j-th attachment that ends as a Content Part
YieldingAt(fs, j) ==
    CHOOSE i \in 1..Len(fs) :
        /\ YieldsPart(fs[i])
        /\ Cardinality({ k \in 1..i : YieldsPart(fs[k]) }) = j

\* part is the Content Part built for attachment i of request r: its inline
\* bytes, or the remote-file part of its upload that became ACTIVE
PartOf(r, i, part) ==
    LET f == FilesOf(r)[i]
    IN /\ part.mime = f.mimeType
       /\ \/ part.kind = "bytes" /\ part.val = b64decode(f.base64).bytes
          \/ /\ part.kind = "uri"
             /\ f.mimeType = "application/pdf"
             /\ \E k \in 1..Len(upload_log[r]) :
                   /\ upload_log[r][k].file = i
                   /\ upload_log[r][k].result = "ACTIVE"
                   /\ part.val = <<upload_log[r][k].name>>

\* C12: the Content Parts handed to the generation call hold exactly one text
\* part, the prompt, and it is the last element; the parts before it are the
\* parts of the attachments that yield one, one each, in the order of the
\* attachments in the request.  Before the list is complete it holds no text
\* part, and once complete it no longer changes.
C12_PromptLast ==
    \A r \in Reqs :
        /\ ~Built(r) => \A j \in 1..Len(contents[r]) : contents[r][j].kind # "text"
        /\ Built(r) =>
              LET n == Len(contents[r])
                  fs == FilesOf(r)
              IN /\ n >= 1
                 /\ contents[r][n].kind = "text"
                 /\ Cardinality({ j \in 1..n : contents[r][j].kind = "text" }) = 1
                 /\ n - 1 = Cardinality({ i \in 1..Len(fs) : YieldsPart(fs[i]) })
                 /\ \A j \in 1..(n - 1) : PartOf(r, YieldingAt(fs, j), contents[r][j])

C12_Frozen == \A r \in Reqs : Built(r) => contents'[r] = contents[r]

C12_ContentsOrder == []C12_PromptLast /\ [][C12_Frozen]_vars

\* an image then a PDF whose upload became ACTIVE: inline part, remote-file
\* part, prompt
C12_Witness ==
    /\ Exhausted(1)
    /\ Len(FilesOf(1)) = 2
    /\ Len(contents[1]) = 3
    /\ contents[1][1] = [kind |-> "bytes", val |-> <<65, 66>>, mime |-> "image/png"]
    /\ contents[1][2] = [kind |-> "uri", val |-> <<1>>, mime |-> "application/pdf"]
    /\ contents[1][3].kind = "text"
    /\ [op |-> "generate", name |-> 0] \in remote_calls[1]

\* the try block of stream() was left by an exception
StreamFailed(r) == stream_outcome[r] \in {"generate_raised", "pull_raised"}

\* C13 as stated: whenever the generation call or a pull has raised, at any
\* point of the stream, the frames end with an error event.
C13_EveryFailureIsErrorEvent ==
    \A r \in Reqs :
        StreamFailed(r) => frames[r] # <<>> /\ Last(frames[r]).event = "error"

\* C13, amended: a failure after the stream started never turns into an HTTP
\* error status.  It is reported as an error event exactly when no non-empty
\* fragment was forwarded before it (the generation call raised, or a pull
\* raised with chunk_count = 0): the error event is then the only frame.
\* When a pull raises after partial output the data frames already sent stay
\* as they are and are followed by the end event, not by an error event.
\* Frames are only ever appended.
C13_FailureFrames ==
    \A r \in Reqs :
        StreamFailed(r) =>
            /\ http[r] = "200"
            /\ chunk_count[r] = 0 =>
                  /\ Len(frames[r]) = 1
                  /\ frames[r][1].event = "error"
            /\ chunk_count[r] > 0 =>
                  /\ stream_outcome[r] = "pull_raised"
                  /\ Len(frames[r]) = chunk_count[r] + 1
                  /\ \A i \in 1..chunk_count[r] : frames[r][i].event = "data"
                  /\ frames[r][chunk_count[r] + 1] = [event |-> "end", data |-> <<"done">>]

C13_AppendOnly ==
    \A r \in Reqs :
        \/ frames'[r] = frames[r]
        \/ /\ Len(frames'[r]) = Len(frames[r]) + 1
           /\ SubSeq(frames'[r], 1, Len(frames[r])) = frames[r]

C13_EarlyFailureIsErrorEvent == []C13_FailureFrames /\ [][C13_AppendOnly]_vars

\* an empty fragment, then a pull that raises: the error event is the only frame
C13_Witness ==
    /\ Exhausted(1)
    /\ stream_outcome[1] = "pull_raised"
    /\ pulls[1] = 1
    /\ chunk_count[1] = 0
    /\ Len(frames[1]) = 1
    /\ frames[1][1] = [event |-> "error", data |-> <<"b","o","o","m">>]

\* the delete of name h issued by request r raised: the call was made and the
\* file is still in the remote store
DeleteRaised(r, h) == h \in Range(deleted[r]) /\ h \in remote_files

\* C14: a delete that raises during cleanup is swallowed.  Whether or not a
\* delete raises, the step that issues it emits no frame, leaves the stream
\* outcome and the HTTP status alone and stays in the cleanup loop at the
\* next handle; so the deletes issued are always the retained handles in
\* order up to the current one, all of them once the generator is exhausted,
\* whichever of them raised, and the frames then still hold a single terminal
\* frame.  A generator in its cleanup always runs to exhaustion.
C14_CleanupProgress ==
    \A r \in Reqs :
        /\ pc[r] = "cleanup" =>
              /\ didx[r] = Len(deleted[r]) + 1
              /\ deleted[r] = SubSeq(uploaded_file_uris[r], 1, didx[r] - 1)
        /\ Exhausted(r) =>
              /\ deleted[r] = uploaded_file_uris[r]
              /\ Cardinality({ i \in 1..Len(frames[r]) :
                                  frames[r][i].event \in {"end", "error"} }) = 1
              /\ \A i \in 1..Len(frames[r]) :
                    frames[r][i].event = "error" => StreamFailed(r) /\ chunk_count[r] = 0

C14_DeleteStep ==
    \A r \in Reqs :
        deleted'[r] # deleted[r] =>
            /\ pc[r] = "cleanup" /\ pc'[r] = "cleanup"
            /\ didx'[r] = didx[r] + 1
            /\ deleted'[r] = Append(deleted[r], uploaded_file_uris[r][didx[r]])
            /\ frames'[r] = frames[r]
            /\ http'[r] = http[r]
            /\ stream_outcome'[r] = stream_outcome[r]
            /\ stream_error'[r] = stream_error[r]

C14_Finishes == \A r \in Reqs : (pc[r] = "cleanup") ~> (pc[r] = "done")

C14_FailedDeleteSwallowed == []C14_CleanupProgress /\ [][C14_DeleteStep]_vars /\ C14_Finishes

\* two retained handles; the delete of the first raised, the second was
\* still deleted, and the end event is the only frame
C14_Witness ==
    /\ Exhausted(1)
    /\ uploaded_file_uris[1] = <<1, 2>>
    /\ deleted[1] = <<1, 2>>
    /\ DeleteRaised(1, 1)
    /\ ~DeleteRaised(1, 2)
    /\ frames[1] = <<[event |-> "end", data |-> <<"done">>]>>

\* the request is in the loop over the attachments (or in an upload it started)
InFileLoop(r) == pc[r] \in {"files", "poll_check", "poll_sleep", "poll_timeout"}

\* what a step of request r did to the four results of the loop
SameParts(r) == contents'[r] = contents[r]
SameErrors(r) == file_errors'[r] = file_errors[r]
SameHandles(r) == uploaded_file_uris'[r] = uploaded_file_uris[r]
SamePrompt(r) == prompt_text'[r] = prompt_text[r]

OnePartMore(r, kind) ==
    /\ Len(contents'[r]) = Len(contents[r]) + 1
    /\ SubSeq(contents'[r], 1, Len(contents[r])) = contents[r]
    /\ contents'[r][Len(contents'[r])].kind = kind

\* the outcomes the step that finishes attachment fidx[r] can have
OutcomesOfStep(r) ==
    { o \in {"skipped", "error", "remote", "inline", "splice"} :
        CASE o = "skipped" ->
               /\ ~HasPayload(FileAt(r))
               /\ SameParts(r) /\ SameErrors(r) /\ SameHandles(r) /\ SamePrompt(r)
          [] o = "error" ->
               /\ Len(file_errors'[r]) = Len(file_errors[r]) + 1
               /\ SubSeq(file_errors'[r], 1, Len(file_errors[r])) = file_errors[r]
               /\ SameParts(r) /\ SameHandles(r) /\ SamePrompt(r)
          [] o = "remote" ->
               /\ OnePartMore(r, "uri")
               /\ uploaded_file_uris'[r]
                    = uploaded_file_uris[r] \o contents'[r][Len(contents'[r])].val
               /\ SameErrors(r) /\ SamePrompt(r)
          [] o = "inline" ->
               /\ OnePartMore(r, "bytes")
               /\ SameErrors(r) /\ SameHandles(r) /\ SamePrompt(r)
          [] o = "splice" ->
               /\ Len(prompt_text'[r]) > Len(prompt_text[r])
               /\ SubSeq(prompt_text'[r], 1, Len(prompt_text[r])) = prompt_text[r]
               /\ SameParts(r) /\ SameErrors(r) /\ SameHandles(r) }

\* C15: the loop visits the attachments one by one in input order and is
\* never left early: a step inside it stays at the same attachment and
\* changes none of the results, or finishes the attachment with exactly one
\* outcome among skipped, one recorded error, one remote-file part with its
\* handle retained, one inline-bytes part, one text splice, and moves to the
\* next; no step inside the loop rejects the request.  When the Content
\* Parts are built every attachment has been visited and the outcomes add up
\* to the number of attachments.  The generation call is made only after
\* the last attachment, with the model and the Content Parts of the request,
\* and exactly once: never twice, and once the stream has begun it was made.
C15_LoopStep ==
    \A r \in Reqs :
        /\ InFileLoop(r) =>
              /\ pc'[r] \in {"files", "poll_check", "poll_sleep", "poll_timeout", "stream_start"}
              /\ fidx'[r] \in {fidx[r], fidx[r] + 1}
              /\ http'[r] \in {"none", "200"}
        /\ (InFileLoop(r) /\ fidx'[r] = fidx[r] /\ pc'[r] # "stream_start") =>
              SameParts(r) /\ SameErrors(r) /\ SameHandles(r) /\ SamePrompt(r)
        /\ (InFileLoop(r) /\ fidx'[r] = fidx[r] + 1) =>
              /\ fidx[r] \in 1..Len(FilesOf(r))
              /\ Cardinality(OutcomesOfStep(r)) = 1
        /\ generate_args'[r] # generate_args[r] =>
              /\ pc[r] = "stream_start"
              /\ fidx[r] = Len(FilesOf(r)) + 1
              /\ generate_args[r] = <<>>
              /\ generate_args'[r] = <<[model |-> model_name[r], contents |-> contents[r]]>>

C15_Accounting ==
    \A r \in Reqs :
        /\ Len(generate_args[r]) = IF pc[r] \in {"pulling", "cleanup", "done"} THEN 1 ELSE 0
        /\ Built(r) =>
              LET fs == FilesOf(r)
              IN /\ fidx[r] = Len(fs) + 1
                 /\ Len(fs) = Cardinality({ i \in 1..Len(fs) : ~HasPayload(fs[i]) })
                              + Len(file_errors[r])
                              + (Len(contents[r]) - 1)
                              + Cardinality({ i \in 1..Len(fs) : IsText(fs[i]) })
                 /\ Len(uploaded_file_uris[r])
                       = Cardinality({ j \in 1..Len(contents[r]) : contents[r][j].kind = "uri" })

C15_OneOutcomePerAttachment == []C15_Accounting /\ [][C15_LoopStep]_vars

\* an attachment that fails to decode, then a PDF that is uploaded: one
\* recorded error, one remote-file part, one generation call
C15_Witness ==
    /\ Exhausted(1)
    /\ Len(FilesOf(1)) = 2
    /\ FilesOf(1)[1].base64 = <<"Q","U","I">>
    /\ Len(file_errors[1]) = 1
    /\ uploaded_file_uris[1] = <<1>>
    /\ Len(contents[1]) = 2
    /\ contents[1][1].kind = "uri"
    /\ Len(generate_args[1]) = 1
    /\ generate_args[1][1].contents = contents[1]

\* sub (given in lower case) occurs in s, letter case of s ignored
OccursCaseless(s, sub) ==
    \E i \in 0..(Len(s) - Len(sub)) :
        \A k \in 1..Len(sub) : LowerChar(s[i + k]) = sub[k]

\* the request went to Failed: the try block was left by an exception that
\* reached the outer handler
Failed(r) == StreamFailed(r) /\ chunk_count[r] = 0

ErrorFrames(r) == { i \in 1..Len(frames[r]) : frames[r][i].event = "error" }

\* C16: a request emits an error event only on going to Failed, and then
\* exactly one.  What it carries depends on the message of the exception
\* alone: the rate-limit text when the message contains "quota" in any letter
\* case, whether or not it also contains "api key"; the configuration-error
\* text when it contains "api key" in any letter case and not "quota"; the
\* message itself otherwise.
C16_ErrorClassified ==
    \A r \in Reqs :
        /\ Cardinality(ErrorFrames(r)) = IF Failed(r) THEN 1 ELSE 0
        /\ Failed(r) =>
              LET msg == stream_error[r]
                  data == frames[r][CHOOSE i \in ErrorFrames(r) : TRUE].data
                  quota == OccursCaseless(msg, <<"q","u","o","t","a">>)
                  key == OccursCaseless(msg, <<"a","p","i"," ","k","e","y">>)
              IN /\ quota => data = <<"API quota exceeded. Please try again later.">>
                 /\ (key /\ ~quota) =>
                       data = <<"API configuration error. Please contact support.">>
                 /\ (~key /\ ~quota) => data = msg

\* the generation call raises a message holding both "Api Key" and "quota":
\* the single frame is the rate-limit error
C16_Witness ==
    /\ Exhausted(1)
    /\ stream_outcome[1] = "generate_raised"
    /\ stream_error[1] = <<"A","p","i"," ","K","e","y"," ","q","u","o","t","a">>
    /\ frames[1] = <<[event |-> "error",
                      data |-> <<"API quota exceeded. Please try again later.">>]>>

\* everything request r holds: the locals of its ask_question call and of its
\* stream() generator, and the record of what it did
LocalState(r) ==
    <<pc[r], http[r], board[r], question[r], model_name[r], prompt_text[r],
      contents[r], uploaded_file_uris[r], file_errors[r], fidx[r], uploaded[r],
      attempt[r], upload_log[r], chunk_count[r], pulls[r], frames[r],
      stream_outcome[r], stream_error[r], didx[r], remote_calls[r], deleted[r],
      generate_args[r]>>

\* the file names the remote service returned to request r
UploadedBy(r) == { c.name : c \in { d \in remote_calls[r] : d.op = "upload" /\ d.name # 0 } }

\* C17: with two requests in flight, a step changes what one request holds
\* and leaves everything the other holds as it was; in particular a step
\* that sets one request's stream outcome leaves the other's frames alone.
\* The two requests never hold the same file name.  When a request is about
\* to make its generation call its Content Parts are its prompt, holding the
\* text of its own text attachments only, preceded by the parts of its own
\* attachments, one each, remote-file parts naming files it uploaded itself;
\* the call is made from there and is given these Content Parts.  A request
\* passes to delete only names it retained itself, never a name returned to
\* the other request, and all the names it retained once its generator is
\* exhausted.
C17_Separate ==
    \A r \in Reqs :
        /\ \A o \in Reqs \ {r} :
              /\ UploadedBy(r) \cap UploadedBy(o) = {}
              /\ Range(uploaded_file_uris[r]) \cap Range(uploaded_file_uris[o]) = {}
              /\ Range(deleted[r]) \cap UploadedBy(o) = {}
        /\ Range(uploaded_file_uris[r]) \subseteq UploadedBy(r)
        /\ Range(deleted[r]) \subseteq Range(uploaded_file_uris[r])
        /\ Exhausted(r) => deleted[r] = uploaded_file_uris[r]
        /\ pc[r] = "stream_start" =>
              LET n == Len(contents[r])
                  fs == FilesOf(r)
              IN /\ n - 1 = Cardinality({ i \in 1..Len(fs) : YieldsPart(fs[i]) })
                 /\ \A j \in 1..(n - 1) :
                       /\ PartOf(r, YieldingAt(fs, j), contents[r][j])
                       /\ contents[r][j].kind = "uri" =>
                             contents[r][j].val[1] \in UploadedBy(r)
                 /\ \A o \in Reqs : \A f \in Range(FilesOf(o)) :
                       Occurs(FinalPrompt(r), <<"\n\n--- Content of ", NameOf(f), " ---\n">>)
                          <=> (f \in Range(fs) /\ IsText(f))

C17_LocalStep ==
    /\ \E r \in Reqs : \A o \in Reqs \ {r} : LocalState(o)' = LocalState(o)
    /\ \A r \in Reqs :
          /\ stream_outcome'[r] # stream_outcome[r] =>
                \A o \in Reqs \ {r} : frames'[o] = frames[o]
          /\ generate_args'[r] # generate_args[r] =>
                /\ pc[r] = "stream_start"
                /\ Last(generate_args'[r]).contents = contents[r]

C18_LastFetchExamined ==
    \A r \in Reqs :
        pc[r] = "poll_timeout" => uploaded[r].state # "ACTIVE"

====
